---------------------------- MODULE Spec2Model ----------------------------
(***************************************************************************)
(* MPEG-4 AudioSpecificConfig codec (package mpeg4audio): Unmarshal /      *)
(* UnmarshalFromPos decode a bit-packed record, Marshal encodes it after a  *)
(* size pass (marshalSizeBits / marshalSize) and a write pass (marshalTo).  *)
(* Buffers are sequences of bytes; bit i of a buffer is bit (7 - i % 8) of  *)
(* byte i \div 8, most significant bit first.                               *)
(***************************************************************************)
EXTENDS Integers, Sequences, FiniteSets, TLC

(***************************************************************************)
(* Object types and sample-rate tables (package mpeg4audio, ISO 14496-3).  *)
(***************************************************************************)
ObjectTypeAACLC == 2
ObjectTypeSBR == 5
ObjectTypePS == 29

\* forward table: index 0..12 -> rate (held 1-based here)
sampleRates ==
    << 96000, 88200, 64000, 48000, 44100, 32000, 24000,
       22050, 16000, 12000, 11025, 8000, 7350 >>

\* the rates that have an entry in the reverse table
reverseSampleRatesKeys == { sampleRates[i] : i \in 1..Len(sampleRates) }

\* reverse table: rate -> index 0..12
reverseSampleRates(rate) ==
    (CHOOSE i \in 1..Len(sampleRates) : sampleRates[i] = rate) - 1

(***************************************************************************)
(* Errors.  Nil is the absence of an error.                                *)
(***************************************************************************)
Nil == "nil"
ErrNotEnoughBits == "not enough bits"
ErrUnsupportedObjectType == "unsupported object type"
ErrInvalidSampleRateIndex == "invalid sample rate index"
ErrNotYetSupported == "not yet supported"
ErrInvalidChannelConfig == "invalid channel configuration"
ErrInvalidExtSampleRateIndex == "invalid extension sample rate index"
ErrUnsupported == "unsupported"
ErrInvalidChannelCount == "invalid channel count"
\* a write outside the buffer: a run-time panic (index out of range)
ErrPanic == "panic: index out of range"

(***************************************************************************)
(* Bit cursor (package bits).                                              *)
(***************************************************************************)
Pow2(n) == 2 ^ n

\* bit i (0-based, MSB first) of buf
Bit(buf, i) == (buf[(i \div 8) + 1] \div Pow2(7 - (i % 8))) % 2

\* the n bits of buf starting at bit pos, as an unsigned number
RECURSIVE ReadBitsUnsafe(_, _, _)
ReadBitsUnsafe(buf, pos, n) ==
    IF n = 0 THEN 0
    ELSE 2 * ReadBitsUnsafe(buf, pos, n - 1) + Bit(buf, pos + n - 1)

\* ReadBits: fails, leaving the cursor, when fewer than n bits remain
ReadBits(buf, pos, n) ==
    IF n > Len(buf) * 8 - pos
    THEN [v |-> 0, pos |-> pos, err |-> ErrNotEnoughBits]
    ELSE [v |-> ReadBitsUnsafe(buf, pos, n), pos |-> pos + n, err |-> Nil]

\* ReadFlag: one bit as a boolean
ReadFlag(buf, pos) ==
    LET r == ReadBits(buf, pos, 1)
    IN  [v |-> (r.v = 1), pos |-> r.pos, err |-> r.err]

\* WriteBits: the low n bits of v, MSB first, at bit pos; the cursor advances
\* by n.  w is [buf, pos, oob, err]; oob records a write outside the buffer.
WriteBits(w, v, n) ==
    LET lo == w.pos
        hi == w.pos + n
        vbit(i) == (v \div Pow2(hi - 1 - i)) % 2
        byte(j) ==
            LET b0 == 8 * (j - 1)
                bitval(k) == IF b0 + k >= lo /\ b0 + k < hi
                             THEN vbit(b0 + k)
                             ELSE Bit(w.buf, b0 + k)
            IN  128 * bitval(0) + 64 * bitval(1) + 32 * bitval(2)
                + 16 * bitval(3) + 8 * bitval(4) + 4 * bitval(5)
                + 2 * bitval(6) + bitval(7)
    IN  [buf |-> [j \in 1..Len(w.buf) |->
                    IF 8 * j > lo /\ 8 * (j - 1) < hi THEN byte(j) ELSE w.buf[j]],
         pos |-> hi,
         oob |-> w.oob \/ (n > 0 /\ hi > 8 * Len(w.buf)),
         err |-> w.err]

(***************************************************************************)
(* AudioSpecificConfig                                                     *)
(*                                                                         *)
(* A call is a chain of steps over a call state: [c, pos, err] for a       *)
(* decode, [buf, pos, oob, err] for the write pass.  A step leaves a state *)
(* that already holds an error as it is (the call has returned).  The      *)
(* chain is written as the image of a one-element set under each step, so  *)
(* that every step works on the value of the step before it.               *)
(***************************************************************************)
\* the zero value of the struct
ZeroConfig ==
    [Type |-> 0, SampleRate |-> 0, ChannelCount |-> 0,
     ExtensionType |-> 0, ExtensionSampleRate |-> 0,
     FrameLengthFlag |-> FALSE, DependsOnCoreCoder |-> FALSE,
     CoreCoderDelay |-> 0]

\* a decode returning err with the cursor at pos
Fail(s, pos, err) == [s EXCEPT !.pos = pos, !.err = err]

\* first object type: read into c.Type, then checked
UnmarshalType(s, buf) ==
    IF s.err # Nil THEN s ELSE
    LET r == ReadBits(buf, s.pos, 5) IN
    IF r.err # Nil THEN Fail(s, r.pos, r.err)
    ELSE IF r.v \notin {ObjectTypeAACLC, ObjectTypeSBR, ObjectTypePS}
    THEN [c |-> [s.c EXCEPT !.Type = r.v], pos |-> r.pos,
          err |-> ErrUnsupportedObjectType]
    ELSE [c |-> [s.c EXCEPT !.Type = r.v], pos |-> r.pos, err |-> Nil]

\* a 4-bit sample rate index, and the 24-bit rate that follows index 15:
\* [rate, pos, err], err = "index" for an index that is neither
UnmarshalRate(buf, pos) ==
    LET r == ReadBits(buf, pos, 4) IN
    IF r.err # Nil THEN [rate |-> 0, pos |-> r.pos, err |-> r.err]
    ELSE IF r.v <= 12
    THEN [rate |-> sampleRates[r.v + 1], pos |-> r.pos, err |-> Nil]
    ELSE IF r.v = 15
    THEN LET t == ReadBits(buf, r.pos, 24)
         IN  [rate |-> t.v, pos |-> t.pos, err |-> t.err]
    ELSE [rate |-> 0, pos |-> r.pos, err |-> "index"]

\* sample rate
UnmarshalSampleRate(s, buf) ==
    IF s.err # Nil THEN s ELSE
    LET r == UnmarshalRate(buf, s.pos) IN
    IF r.err = "index" THEN Fail(s, r.pos, ErrInvalidSampleRateIndex)
    ELSE IF r.err # Nil THEN Fail(s, r.pos, r.err)
    ELSE [c |-> [s.c EXCEPT !.SampleRate = r.rate], pos |-> r.pos, err |-> Nil]

\* UnmarshalChannelConfig storing the code before it is checked
UnmarshalChannelConfig_StoreFirst(s, buf) ==
    IF s.err # Nil THEN s ELSE
    LET r == ReadBits(buf, s.pos, 4) IN
    IF r.err # Nil THEN Fail(s, r.pos, r.err)
    ELSE [c |-> [s.c EXCEPT !.ChannelCount = IF r.v = 7 THEN 8 ELSE r.v],
          pos |-> r.pos,
          err |-> IF r.v = 0 THEN ErrNotYetSupported
                  ELSE IF r.v <= 7 THEN Nil
                  ELSE ErrInvalidChannelConfig]

\* channel configuration
UnmarshalChannelConfig(s, buf) ==
    IF s.err # Nil THEN s ELSE
    LET r == ReadBits(buf, s.pos, 4) IN
    IF r.err # Nil THEN Fail(s, r.pos, r.err)
    ELSE IF r.v = 0 THEN Fail(s, r.pos, ErrNotYetSupported)
    ELSE IF r.v >= 1 /\ r.v <= 6
    THEN [c |-> [s.c EXCEPT !.ChannelCount = r.v], pos |-> r.pos, err |-> Nil]
    ELSE IF r.v = 7
    THEN [c |-> [s.c EXCEPT !.ChannelCount = 8], pos |-> r.pos, err |-> Nil]
    ELSE Fail(s, r.pos, ErrInvalidChannelConfig)

\* SBR / PS: the type becomes the extension type, then the extension rate
UnmarshalExtensionSampleRate(s, buf) ==
    IF s.err # Nil THEN s ELSE
    IF ~(s.c.Type = ObjectTypeSBR \/ s.c.Type = ObjectTypePS) THEN s ELSE
    LET c1 == [s.c EXCEPT !.ExtensionType = s.c.Type]
        r == UnmarshalRate(buf, s.pos) IN
    IF r.err = "index"
    THEN [c |-> c1, pos |-> r.pos, err |-> ErrInvalidExtSampleRateIndex]
    ELSE IF r.err # Nil THEN [c |-> c1, pos |-> r.pos, err |-> r.err]
    ELSE [c |-> [c1 EXCEPT !.ExtensionSampleRate = r.rate], pos |-> r.pos,
          err |-> Nil]

\* UnmarshalExtensionType accepting any second object type
UnmarshalExtensionType_Unchecked(s, buf) ==
    IF s.err # Nil THEN s ELSE
    IF ~(s.c.Type = ObjectTypeSBR \/ s.c.Type = ObjectTypePS) THEN s ELSE
    LET r == ReadBits(buf, s.pos, 5) IN
    IF r.err # Nil THEN Fail(s, r.pos, r.err)
    ELSE [c |-> [s.c EXCEPT !.Type = r.v], pos |-> r.pos, err |-> Nil]

\* SBR / PS: the second object type, read into c.Type, then checked
UnmarshalExtensionType(s, buf) ==
    IF s.err # Nil THEN s ELSE
    IF ~(s.c.Type = ObjectTypeSBR \/ s.c.Type = ObjectTypePS) THEN s ELSE
    LET r == ReadBits(buf, s.pos, 5) IN
    IF r.err # Nil THEN Fail(s, r.pos, r.err)
    ELSE IF r.v # ObjectTypeAACLC
    THEN [c |-> [s.c EXCEPT !.Type = r.v], pos |-> r.pos,
          err |-> ErrUnsupportedObjectType]
    ELSE [c |-> [s.c EXCEPT !.Type = r.v], pos |-> r.pos, err |-> Nil]

\* frame length flag: assigned together with the error
UnmarshalFrameLengthFlag(s, buf) ==
    IF s.err # Nil THEN s ELSE
    LET r == ReadFlag(buf, s.pos)
    IN  [c |-> [s.c EXCEPT !.FrameLengthFlag = r.v], pos |-> r.pos, err |-> r.err]

\* depends-on-core-coder flag: assigned together with the error
UnmarshalDependsOnCoreCoder(s, buf) ==
    IF s.err # Nil THEN s ELSE
    LET r == ReadFlag(buf, s.pos)
    IN  [c |-> [s.c EXCEPT !.DependsOnCoreCoder = r.v], pos |-> r.pos, err |-> r.err]

\* core coder delay, read when the record depends on the core coder
UnmarshalCoreCoderDelay(s, buf) ==
    IF s.err # Nil THEN s ELSE
    IF ~s.c.DependsOnCoreCoder THEN s ELSE
    LET r == ReadBits(buf, s.pos, 14) IN
    IF r.err # Nil THEN Fail(s, r.pos, r.err)
    ELSE [c |-> [s.c EXCEPT !.CoreCoderDelay = r.v % 65536], pos |-> r.pos,
          err |-> Nil]

\* UnmarshalExtensionFlag taking a missing flag for a clear one
UnmarshalExtensionFlag_Lenient(s, buf) ==
    IF s.err # Nil THEN s ELSE
    LET r == ReadFlag(buf, s.pos) IN
    IF r.err # Nil THEN Fail(s, r.pos, Nil)
    ELSE IF r.v THEN Fail(s, r.pos, ErrUnsupported)
    ELSE Fail(s, r.pos, Nil)

\* extension flag: must be clear
UnmarshalExtensionFlag(s, buf) ==
    IF s.err # Nil THEN s ELSE
    LET r == ReadFlag(buf, s.pos) IN
    IF r.err # Nil THEN Fail(s, r.pos, r.err)
    ELSE IF r.v THEN Fail(s, r.pos, ErrUnsupported)
    ELSE Fail(s, r.pos, Nil)

\* UnmarshalFromPos decodes a Config into c: [c, pos, err]
UnmarshalFromPos(c, buf, pos) ==
    LET s0 == { [c |-> c, pos |-> pos, err |-> Nil] }
        s1 == { UnmarshalType(s, buf) : s \in s0 }
        s2 == { UnmarshalSampleRate(s, buf) : s \in s1 }
        s3 == { UnmarshalChannelConfig(s, buf) : s \in s2 }
        s4 == { UnmarshalExtensionSampleRate(s, buf) : s \in s3 }
        s5 == { UnmarshalExtensionType(s, buf) : s \in s4 }
        s6 == { UnmarshalFrameLengthFlag(s, buf) : s \in s5 }
        s7 == { UnmarshalDependsOnCoreCoder(s, buf) : s \in s6 }
        s8 == { UnmarshalCoreCoderDelay(s, buf) : s \in s7 }
        s9 == { UnmarshalExtensionFlag(s, buf) : s \in s8 }
    IN  CHOOSE s \in s9 : TRUE

\* Unmarshal decodes a Config from bit 0
Unmarshal(c, buf) == UnmarshalFromPos(c, buf, 0)

HasExtension(c) ==
    c.ExtensionType = ObjectTypeSBR \/ c.ExtensionType = ObjectTypePS

\* marshalSizeBits without the 5 bits of the second object type
marshalSizeBits_NoSecondType(c) ==
    (5 + 4 + 2 + 1)
    + (IF c.SampleRate \notin reverseSampleRatesKeys THEN 28 ELSE 4)
    + (IF HasExtension(c)
       THEN (IF c.ExtensionSampleRate \notin reverseSampleRatesKeys
             THEN 28 ELSE 4)
       ELSE 0)
    + (IF c.DependsOnCoreCoder THEN 14 ELSE 0)

\* size pass: the encoded length in bits
marshalSizeBits(c) ==
    (5 + 4 + 2 + 1)
    + (IF c.SampleRate \notin reverseSampleRatesKeys THEN 28 ELSE 4)
    + (IF HasExtension(c)
       THEN (IF c.ExtensionSampleRate \notin reverseSampleRatesKeys
             THEN 28 ELSE 4) + 5
       ELSE 0)
    + (IF c.DependsOnCoreCoder THEN 14 ELSE 0)

\* the encoded length in bytes
marshalSize(c) ==
    LET n == marshalSizeBits(c)
    IN  (n \div 8) + (IF (n % 8) # 0 THEN 1 ELSE 0)

\* MarshalType writing c.Type even when there is an extension
MarshalType_TypeOnly(c, w) ==
    IF w.err # Nil THEN w ELSE WriteBits(w, c.Type, 5)

\* first object type field: the extension type when there is one
MarshalType(c, w) ==
    IF w.err # Nil THEN w ELSE
    WriteBits(w, IF HasExtension(c) THEN c.ExtensionType ELSE c.Type, 5)

\* MarshalRateIndex with 13 as the escape index
MarshalRateIndex_Escape13(rate, w) ==
    IF w.err # Nil THEN w ELSE
    IF rate \notin reverseSampleRatesKeys
    THEN WriteBits(w, 13, 4)
    ELSE WriteBits(w, reverseSampleRates(rate), 4)

\* MarshalRateIndex taking the last table index for every table rate
MarshalRateIndex_LastIndex(rate, w) ==
    IF w.err # Nil THEN w ELSE
    IF rate \notin reverseSampleRatesKeys
    THEN WriteBits(w, 15, 4)
    ELSE WriteBits(w, 12, 4)

\* a sample rate index: the table index, or 15 for a rate not in the table
MarshalRateIndex(rate, w) ==
    IF w.err # Nil THEN w ELSE
    IF rate \notin reverseSampleRatesKeys
    THEN WriteBits(w, 15, 4)
    ELSE WriteBits(w, reverseSampleRates(rate), 4)

\* the 24-bit rate after index 15
MarshalRateLiteral(rate, w) ==
    IF w.err # Nil THEN w ELSE
    IF rate \notin reverseSampleRatesKeys
    THEN WriteBits(w, rate, 24)
    ELSE w

\* MarshalChannelConfig clamping the channel count into 1..7
MarshalChannelConfig_Clamp(c, w) ==
    IF w.err # Nil THEN w ELSE
    IF c.ChannelCount < 1 THEN WriteBits(w, 1, 4)
    ELSE IF c.ChannelCount <= 6 THEN WriteBits(w, c.ChannelCount, 4)
    ELSE WriteBits(w, 7, 4)

\* channel configuration: the pass returns on an invalid channel count
MarshalChannelConfig(c, w) ==
    IF w.err # Nil THEN w ELSE
    IF c.ChannelCount >= 1 /\ c.ChannelCount <= 6
    THEN WriteBits(w, c.ChannelCount, 4)
    ELSE IF c.ChannelCount = 8
    THEN WriteBits(w, 7, 4)
    ELSE [w EXCEPT !.err = ErrInvalidChannelCount]

\* SBR / PS: the second object type field
MarshalExtensionType(c, w) ==
    IF w.err # Nil THEN w ELSE
    IF HasExtension(c) THEN WriteBits(w, c.Type, 5) ELSE w

\* frame length flag
MarshalFrameLengthFlag(c, w) ==
    IF w.err # Nil THEN w ELSE
    WriteBits(w, IF c.FrameLengthFlag THEN 1 ELSE 0, 1)

\* depends-on-core-coder flag
MarshalDependsOnCoreCoder(c, w) ==
    IF w.err # Nil THEN w ELSE
    WriteBits(w, IF c.DependsOnCoreCoder THEN 1 ELSE 0, 1)

\* MarshalCoreCoderDelay writing the delay of every record
MarshalCoreCoderDelay_Always(c, w) ==
    IF w.err # Nil THEN w ELSE WriteBits(w, c.CoreCoderDelay, 14)

\* core coder delay, written when the record depends on the core coder
MarshalCoreCoderDelay(c, w) ==
    IF w.err # Nil THEN w ELSE
    IF c.DependsOnCoreCoder THEN WriteBits(w, c.CoreCoderDelay, 14) ELSE w

\* MarshalExtensionFlag writing a set flag
MarshalExtensionFlag_Set(c, w) ==
    IF w.err # Nil THEN w ELSE WriteBits(w, 1, 1)

\* extension flag: the cursor moves on, nothing is written
MarshalExtensionFlag(c, w) ==
    IF w.err # Nil THEN w ELSE [w EXCEPT !.pos = w.pos + 1]

\* write pass over [buf, pos, oob, err]
marshalTo(c, w0) ==
    LET w1 == { MarshalType(c, w) : w \in {w0} }
        w2 == { MarshalRateIndex(c.SampleRate, w) : w \in w1 }
        w3 == { MarshalRateLiteral(c.SampleRate, w) : w \in w2 }
        w4 == { MarshalChannelConfig(c, w) : w \in w3 }
        w5 == { IF HasExtension(c)
                THEN MarshalRateIndex(c.ExtensionSampleRate, w) ELSE w : w \in w4 }
        w6 == { IF HasExtension(c)
                THEN MarshalRateLiteral(c.ExtensionSampleRate, w) ELSE w : w \in w5 }
        w7 == { MarshalExtensionType(c, w) : w \in w6 }
        w8 == { MarshalFrameLengthFlag(c, w) : w \in w7 }
        w9 == { MarshalDependsOnCoreCoder(c, w) : w \in w8 }
        w10 == { MarshalCoreCoderDelay(c, w) : w \in w9 }
        w11 == { MarshalExtensionFlag(c, w) : w \in w10 }
    IN  CHOOSE w \in w11 : TRUE

\* what Marshal returns for the state w the write pass ended in: a write
\* outside the buffer panics, an error returns no buffer (isNil)
MarshalReturn(w) ==
    IF w.oob
    THEN [buf |-> <<>>, isNil |-> TRUE, pos |-> w.pos, err |-> ErrPanic]
    ELSE IF w.err # Nil
    THEN [buf |-> <<>>, isNil |-> TRUE, pos |-> w.pos, err |-> w.err]
    ELSE [buf |-> w.buf, isNil |-> FALSE, pos |-> w.pos, err |-> Nil]

\* Marshal: a zeroed buffer of marshalSize bytes, then the write pass
Marshal(c) ==
    LET w0 == [buf |-> [j \in 1..marshalSize(c) |-> 0], pos |-> 0,
               oob |-> FALSE, err |-> Nil]
    IN  CHOOSE m \in { MarshalReturn(w) : w \in { marshalTo(c, w0) } } : TRUE

(***************************************************************************)
(* Inputs.  Records handed to Marshal and buffers handed to Unmarshal.     *)
(***************************************************************************)
\* largest ChannelCount tried (the smallest is -1)
MaxChannelCount == 9
\* bytes that may follow an encoding in the buffer handed to Unmarshal
MaxExtraBytes == 1
\* largest start position handed to UnmarshalFromPos
MaxStartPos == 1

MaxRate24 == Pow2(24) - 1

TypeInputs == {ObjectTypeAACLC, ObjectTypeSBR, 1}
\* table rates (index 4, 12), literals, and rates that do not fit 24 bits
SampleRateInputs == {44100, 7350, 12345, MaxRate24, MaxRate24 + 1, -1}
ExtensionTypeInputs == {0, ObjectTypeSBR, ObjectTypePS, ObjectTypeAACLC}
ExtensionSampleRateInputs == {0, 48000, 54321}
\* CoreCoderDelay is a uint16; 16383 is the largest 14-bit value
CoreCoderDelayInputs == {0, 16383, 16384}

ConfigInputs ==
    [Type : TypeInputs, SampleRate : SampleRateInputs,
     ChannelCount : (-1)..MaxChannelCount,
     ExtensionType : ExtensionTypeInputs,
     ExtensionSampleRate : ExtensionSampleRateInputs,
     FrameLengthFlag : BOOLEAN, DependsOnCoreCoder : BOOLEAN,
     CoreCoderDelay : CoreCoderDelayInputs]

\* a record whose every field differs from what a decode of the input
\* buffers stores, to see which fields a decode touches
DirtyConfig ==
    [Type |-> 7, SampleRate |-> 11111, ChannelCount |-> 7,
     ExtensionType |-> 9, ExtensionSampleRate |-> 22222,
     FrameLengthFlag |-> TRUE, DependsOnCoreCoder |-> TRUE,
     CoreCoderDelay |-> 77]

ReceiverInputs == {ZeroConfig, DirtyConfig}

\* the n low bits of x, MSB first
BitsOf(x, n) == [i \in 1..n |-> (x \div Pow2(n - i)) % 2]

\* rate fields as they appear in a buffer: an index, and a literal after 15
RateFieldInputs ==
    { [idx |-> i, lit |-> 0] : i \in {4, 12, 13, 14} }
    \cup { [idx |-> 15, lit |-> l] : l \in {12345, 44100, MaxRate24} }

\* the rate fields tried ahead of an extension block
SBRRateFieldInputs ==
    { [idx |-> i, lit |-> 0] : i \in {4, 13} }
    \cup { [idx |-> 15, lit |-> l] : l \in {12345, 44100} }

ExtRateFieldInputs ==
    { [idx |-> i, lit |-> 0] : i \in {3, 13} }
    \cup { [idx |-> 15, lit |-> l] : l \in {54321, 48000} }

RateBits(r) ==
    BitsOf(r.idx, 4) \o (IF r.idx = 15 THEN BitsOf(r.lit, 24) ELSE <<>>)

BoolBit(x) == IF x THEN 1 ELSE 0

\* the bit strings of the layouts tried: every field drawn independently
LayoutInputs ==
    { BitsOf(t1, 5) \o RateBits(sr) \o BitsOf(ch, 4) \o x \o <<BoolBit(fl)>> \o d \o <<ef>> :
        t1 \in {ObjectTypeAACLC}, sr \in RateFieldInputs, ch \in 0..15,
        x \in {<<>>}, fl \in BOOLEAN,
        d \in {<<0>>} \cup { <<1>> \o BitsOf(dl, 14) : dl \in {0, 5, 16383} },
        ef \in {0, 1} }
    \cup
    { BitsOf(t1, 5) \o RateBits(sr) \o BitsOf(ch, 4) \o x \o <<BoolBit(fl)>> \o d \o <<ef>> :
        t1 \in {ObjectTypeSBR, ObjectTypePS}, sr \in SBRRateFieldInputs,
        ch \in {1, 7},
        x \in { RateBits(er) \o BitsOf(t2, 5) :
                  er \in ExtRateFieldInputs, t2 \in {ObjectTypeAACLC, ObjectTypeSBR} },
        fl \in BOOLEAN,
        d \in {<<0>>} \cup { <<1>> \o BitsOf(dl, 14) : dl \in {0, 16383} },
        ef \in {0, 1} }

\* a bit string filled up to whole bytes with the bit pad
PadBits(bs, pad) ==
    bs \o [i \in 1..((8 - (Len(bs) % 8)) % 8) |-> pad]

\* a bit string of whole bytes as bytes
ToBytes(bs) ==
    [j \in 1..(Len(bs) \div 8) |->
        128 * bs[8*j - 7] + 64 * bs[8*j - 6] + 32 * bs[8*j - 5] + 16 * bs[8*j - 4]
        + 8 * bs[8*j - 3] + 4 * bs[8*j - 2] + 2 * bs[8*j - 1] + bs[8*j]]

\* a layout as a buffer, its last bits filled with pad
LayoutBytes(bs, pad) == ToBytes(PadBits(bs, pad))

\* the longest layout: 5 + 28 + 4 + 28 + 5 + 2 + 14 + 1 bits
MaxLayoutBytes == (5 + 28 + 4 + 28 + 5 + 2 + 14 + 1 + 7) \div 8

Min(x, y) == IF x <= y THEN x ELSE y

\* what is done to a layout to make a buffer of it: cut to k bytes ("cut"),
\* padded with ones instead of zeros ("ones"), followed by e bytes x ("more")
VariantInputs ==
    { [kind |-> "cut", k |-> k, x |-> 0] : k \in 0..MaxLayoutBytes }
    \cup { [kind |-> "ones", k |-> 0, x |-> 1] }
    \cup { [kind |-> "more", k |-> e, x |-> x] : e \in 1..MaxExtraBytes, x \in {0, 255} }

LayoutBuf(bs, m) ==
    IF m.kind = "ones" THEN LayoutBytes(bs, 1)
    ELSE IF m.kind = "more" THEN LayoutBytes(bs, 0) \o [i \in 1..m.k |-> m.x]
    ELSE SubSeq(LayoutBytes(bs, 0), 1, Min(m.k, (Len(bs) + 7) \div 8))

\* the layouts as buffers
LayoutBufs == { LayoutBuf(bs, m) : bs \in LayoutInputs, m \in VariantInputs }

\* every buffer of at most one byte
RawBufs == {<<>>} \cup { <<x>> : x \in 0..255 }

(***************************************************************************)
(* State                                                                   *)
(***************************************************************************)
VARIABLES
    stage,   \* "rec": a record to encode; "buf": a buffer to decode;
             \* "encoded": the input record was encoded;
             \* "decoded": the input buffer was decoded;
             \* "reencoded": the decoded record was encoded;
             \* "redecoded": Marshal's bytes were decoded into a fresh record
    v,       \* the record last handed to Marshal
    b,       \* the input buffer
    before,  \* the receiver as it was when the last decode was called
    rec,     \* the record: Marshal's receiver, Unmarshal's receiver
    buf,     \* the buffer: Marshal's result, Unmarshal's argument
    isNil,   \* Marshal returned no buffer
    pos0,    \* the cursor handed to the last decode
    pos,     \* the cursor after the last decode
    wpos,    \* the write pass's cursor when the last Marshal returned
    err      \* the error of the last call

vars == <<stage, v, b, before, rec, buf, isNil, pos0, pos, wpos, err>>

Init ==
    /\ pos0 = 0
    /\ pos = 0
    /\ wpos = 0
    /\ err = Nil
    /\ isNil = FALSE
    /\ \/ /\ stage = "rec"
          /\ rec \in ConfigInputs
          /\ buf = <<>>
       \/ /\ stage = "buf"
          /\ \/ buf \in LayoutBufs
             \/ buf \in RawBufs
          /\ rec \in ReceiverInputs
    /\ v = rec
    /\ before = rec
    /\ b = buf

\* c.Marshal() on the input record, or on the record a decode from bit 0
\* produced
DoMarshal ==
    /\ stage \in {"rec", "decoded"}
    /\ err = Nil
    /\ pos0 = 0
    /\ \E m \in { Marshal(rec) } :
           /\ buf' = m.buf
           /\ isNil' = m.isNil
           /\ wpos' = m.pos
           /\ err' = m.err
    /\ v' = rec
    /\ stage' = IF stage = "rec" THEN "encoded" ELSE "reencoded"
    /\ UNCHANGED <<b, before, rec, pos0, pos>>

\* c.Unmarshal(buf) on the input buffer into the caller's record
DoUnmarshal ==
    /\ stage = "buf"
    /\ \E r \in { Unmarshal(rec, buf) } :
           /\ rec' = r.c
           /\ pos' = r.pos
           /\ err' = r.err
    /\ before' = rec
    /\ pos0' = 0
    /\ stage' = "decoded"
    /\ UNCHANGED <<v, b, buf, isNil, wpos>>

\* c.UnmarshalFromPos(buf, &p) on the input buffer with the cursor inside it
DoUnmarshalFromPos ==
    /\ stage = "buf"
    /\ \E p \in 1..MaxStartPos :
          \E r \in { UnmarshalFromPos(rec, buf, p) } :
              /\ rec' = r.c
              /\ pos' = r.pos
              /\ err' = r.err
              /\ pos0' = p
    /\ before' = rec
    /\ stage' = "decoded"
    /\ UNCHANGED <<v, b, buf, isNil, wpos>>

\* c.Unmarshal(buf) on the bytes Marshal returned, into a fresh record
DoUnmarshalMarshalled ==
    /\ stage \in {"encoded", "reencoded"}
    /\ err = Nil
    /\ ~isNil
    /\ \E r \in { Unmarshal(ZeroConfig, buf) } :
           /\ rec' = r.c
           /\ pos' = r.pos
           /\ err' = r.err
    /\ before' = ZeroConfig
    /\ pos0' = 0
    /\ stage' = "redecoded"
    /\ UNCHANGED <<v, b, buf, isNil, wpos>>

Next == DoMarshal \/ DoUnmarshal \/ DoUnmarshalFromPos \/ DoUnmarshalMarshalled

Spec == Init /\ [][Next]_vars

(***************************************************************************)
(* Properties                                                              *)
(***************************************************************************)
ValidChannelCounts == (1..6) \cup {8}

Is24Bit(x) == x >= 0 /\ x <= MaxRate24

\* the records Unmarshal produces from a fresh record
InDomain(c) ==
    /\ c.Type = ObjectTypeAACLC
    /\ c.SampleRate \in reverseSampleRatesKeys \/ Is24Bit(c.SampleRate)
    /\ c.ChannelCount \in ValidChannelCounts
    /\ \/ c.ExtensionType = 0 /\ c.ExtensionSampleRate = 0
       \/ /\ c.ExtensionType \in {ObjectTypeSBR, ObjectTypePS}
          /\ c.ExtensionSampleRate \in reverseSampleRatesKeys
             \/ Is24Bit(c.ExtensionSampleRate)
    /\ IF c.DependsOnCoreCoder
       THEN c.CoreCoderDelay \in 0..16383
       ELSE c.CoreCoderDelay = 0

Encoded == stage \in {"encoded", "reencoded"}

\* C1: round trip.  Every record Unmarshal produces from a fresh record is in
\* the domain; Marshal accepts every record v of the domain, and decoding
\* its bytes into a fresh record succeeds and yields v in every field.
C1_RoundTrip ==
    /\ (stage = "decoded" /\ err = Nil /\ before = ZeroConfig) => InDomain(rec)
    /\ (Encoded /\ InDomain(v)) => (err = Nil /\ ~isNil)
    /\ (stage = "redecoded" /\ InDomain(v)) => (err = Nil /\ rec = v)

\* an SBR record whose core rate is a literal, whose extension rate is a
\* table rate, and which came back from its bytes
C1_Witness ==
    /\ stage = "redecoded"
    /\ InDomain(v)
    /\ v.ExtensionType = ObjectTypeSBR
    /\ v.SampleRate = 12345
    /\ v.ExtensionSampleRate = 48000
    /\ v.DependsOnCoreCoder /\ v.CoreCoderDelay = 16383
    /\ rec = v

(***************************************************************************)
(* The fields of a buffer, read off the bit layout                         *)
(***************************************************************************)
HasBits(x, p, n) == p >= 0 /\ p + n <= 8 * Len(x)
Field(x, p, n) == ReadBitsUnsafe(x, p, n)

RecognizedTypes == {ObjectTypeAACLC, ObjectTypeSBR, ObjectTypePS}
ExtensionTypes == {ObjectTypeSBR, ObjectTypePS}

\* a rate field at bit p is whole and well-formed, and its length
RateFieldOk(x, p) ==
    /\ HasBits(x, p, 4)
    /\ \/ Field(x, p, 4) <= 12
       \/ Field(x, p, 4) = 15 /\ HasBits(x, p + 4, 24)
RateFieldLen(x, p) == IF Field(x, p, 4) = 15 THEN 28 ELSE 4
RateFieldValue(x, p) ==
    IF Field(x, p, 4) = 15 THEN Field(x, p + 4, 24)
    ELSE sampleRates[Field(x, p, 4) + 1]
\* a rate field that spells a table rate as a literal after index 15
RateFieldEscapesTableRate(x, p) ==
    /\ Field(x, p, 4) = 15
    /\ Field(x, p + 4, 24) \in reverseSampleRatesKeys

\* the decode started at bit p gets as far as the rate index
RateReached(x, p) ==
    /\ HasBits(x, p, 5) /\ Field(x, p, 5) \in RecognizedTypes
    /\ HasBits(x, p + 5, 4)
\* ... as far as the channel configuration, which is at ChannelPos
ChannelPos(x, p) == p + 5 + RateFieldLen(x, p + 5)
ChannelReached(x, p) ==
    /\ RateReached(x, p) /\ RateFieldOk(x, p + 5)
    /\ HasBits(x, ChannelPos(x, p), 4)
\* ... as far as the extension rate index, which is at ExtRatePos
ExtRatePos(x, p) == ChannelPos(x, p) + 4
ExtRateReached(x, p) ==
    /\ ChannelReached(x, p)
    /\ Field(x, ChannelPos(x, p), 4) \in 1..7
    /\ Field(x, p, 5) \in ExtensionTypes
    /\ HasBits(x, ExtRatePos(x, p), 4)
\* ... as far as the second object type, which is at SecondTypePos
SecondTypePos(x, p) == ExtRatePos(x, p) + RateFieldLen(x, ExtRatePos(x, p))
SecondTypeReached(x, p) ==
    /\ ExtRateReached(x, p) /\ RateFieldOk(x, ExtRatePos(x, p))
    /\ HasBits(x, SecondTypePos(x, p), 5)

\* the encoded length of a rate, and the channel code of a channel count
RateLenOf(rate) == IF rate \in reverseSampleRatesKeys THEN 4 ELSE 28
ChannelCodeOf(n) == IF n = 8 THEN 7 ELSE n

CeilDiv8(n) == (n + 7) \div 8

\* the bits of x from bit p on are zero
ZeroFrom(x, p) == \A i \in p..(8 * Len(x) - 1) : Bit(x, i) = 0

\* C3: minimality.  For v in the domain Marshal returns
\* ceil(marshalSizeBits(v)/8) bytes, the extension flag bit and the padding
\* after it are zero, and decoding the bytes from bit 0 succeeds with the
\* cursor at marshalSizeBits(v).
C3_Minimality ==
    /\ (Encoded /\ InDomain(v)) =>
          /\ err = Nil /\ ~isNil
          /\ Len(buf) = CeilDiv8(marshalSizeBits(v))
          /\ ZeroFrom(buf, marshalSizeBits(v) - 1)
    /\ (stage = "redecoded" /\ InDomain(v)) =>
          /\ err = Nil
          /\ pos = marshalSizeBits(v)

\* a record whose encoding ends two bits short of a byte, with a literal of
\* 24 ones in it
C3_Witness ==
    /\ stage = "redecoded"
    /\ InDomain(v)
    /\ v.SampleRate = MaxRate24
    /\ marshalSizeBits(v) = 54
    /\ pos = 54
    /\ Len(buf) = 7

\* C9: the size pass and the write pass agree.  For every record with a
\* valid channel count, whatever its types and rates, the write pass ends at
\* bit marshalSizeBits and never writes outside the buffer of marshalSize
\* bytes.
C9_SizeAgree ==
    (Encoded /\ v.ChannelCount \in ValidChannelCounts) =>
        /\ err = Nil /\ ~isNil
        /\ wpos = marshalSizeBits(v)
        /\ Len(buf) = marshalSize(v)
        /\ wpos <= 8 * Len(buf)

\* an unsupported type under an extension, with a rate that is no 24-bit value
C9_Witness ==
    /\ stage = "encoded"
    /\ v.Type = 1 /\ v.ExtensionType = ObjectTypePS
    /\ v.SampleRate = -1 /\ v.ExtensionSampleRate = 54321
    /\ v.ChannelCount = 8
    /\ v.DependsOnCoreCoder
    /\ wpos = 87 /\ Len(buf) = 11

\* C8: core-coder delay gating.  Without DependsOnCoreCoder the bytes are
\* those of the same record with CoreCoderDelay 0 and no delay field is
\* written or read; with it the encoding is 14 bits longer and a delay of at
\* most 16383 comes back from the bytes.
C8_DelayGating ==
    /\ (Encoded /\ err = Nil) =>
          \E m \in { Marshal([v EXCEPT !.DependsOnCoreCoder = FALSE,
                                       !.CoreCoderDelay = 0]) } :
              IF v.DependsOnCoreCoder
              THEN wpos = m.pos + 14
              ELSE wpos = m.pos /\ buf = m.buf
    /\ (stage = "decoded" /\ err = Nil /\ ~rec.DependsOnCoreCoder) =>
          rec.CoreCoderDelay = before.CoreCoderDelay
    /\ (stage = "redecoded" /\ InDomain([v EXCEPT !.CoreCoderDelay = 0])) =>
          /\ err = Nil
          /\ pos = wpos
          /\ rec.DependsOnCoreCoder = v.DependsOnCoreCoder
          /\ rec.CoreCoderDelay =
                IF ~v.DependsOnCoreCoder THEN 0
                ELSE IF v.CoreCoderDelay <= 16383 THEN v.CoreCoderDelay
                ELSE rec.CoreCoderDelay

\* a delay left in a record that does not depend on the core coder
C8_Witness ==
    /\ stage = "redecoded"
    /\ ~v.DependsOnCoreCoder /\ v.CoreCoderDelay = 16383
    /\ v.Type = ObjectTypeAACLC /\ v.ChannelCount = 2 /\ v.SampleRate = 44100
    /\ v.ExtensionType = 0
    /\ err = Nil
    /\ rec.CoreCoderDelay = 0
    /\ wpos = 16

\* the input buffer was decoded from bit 0 into a fresh record, holds exactly
\* the bits consumed and zero padding up to the next byte, and the record was
\* encoded again
ExactBufferReencoded ==
    /\ stage = "reencoded"
    /\ before = ZeroConfig
    /\ Len(b) = CeilDiv8(pos)
    /\ ZeroFrom(b, pos)

\* the number of rate fields of the accepted buffer x that spell a table rate
\* as a literal
EscapedTableRates(x) ==
    (IF RateFieldEscapesTableRate(x, 5) THEN 1 ELSE 0)
    + (IF Field(x, 0, 5) \in ExtensionTypes
          /\ RateFieldEscapesTableRate(x, ExtRatePos(x, 0))
       THEN 1 ELSE 0)

\* C2 as stated: Marshal of the decoded record returns the bytes of every
\* accepted buffer that holds exactly the consumed bits and zero padding.
C2_ByteExact ==
    ExactBufferReencoded => (err = Nil /\ ~isNil /\ buf = b)

\* C2, amended: Marshal returns the bytes of such a buffer exactly when no
\* rate field of it spells a table rate as a literal after index 15; each
\* rate field that does comes back as the 4-bit table index, three bytes
\* shorter.
C2_ByteExactCanonical ==
    ExactBufferReencoded =>
        /\ err = Nil /\ ~isNil
        /\ (buf = b) <=> (EscapedTableRates(b) = 0)
        /\ Len(buf) = Len(b) - 3 * EscapedTableRates(b)

\* an SBR buffer with two literal rates that are no table rates, reproduced
C2_Witness ==
    /\ ExactBufferReencoded
    /\ Field(b, 0, 5) = ObjectTypeSBR
    /\ Field(b, 5, 4) = 15 /\ Field(b, 9, 24) = 12345
    /\ Field(b, 37, 4) = 15 /\ Field(b, 41, 24) = 54321
    /\ EscapedTableRates(b) = 0
    /\ buf = b

\* C4: escape threshold.  Marshal writes the 4-bit table index for a table
\* rate and index 15 with a 24-bit literal for any other rate, for the core
\* and the extension rate, and a rate of 24 bits comes back from the bytes;
\* Unmarshal maps an index of at most 12 to the table rate, index 15 to the
\* literal after it, and fails with the invalid-index error on 13 and 14.
C4_EscapeThreshold ==
    /\ (Encoded /\ err = Nil) =>
          /\ (Field(buf, 5, 4) <= 12) <=> (v.SampleRate \in reverseSampleRatesKeys)
          /\ Field(buf, 5, 4) \in (0..12) \cup {15}
          /\ RateFieldValue(buf, 5) = v.SampleRate % Pow2(24)
          /\ Field(buf, 5 + RateLenOf(v.SampleRate), 4) = ChannelCodeOf(v.ChannelCount)
          /\ HasExtension(v) =>
                /\ (Field(buf, ExtRatePos(buf, 0), 4) <= 12)
                      <=> (v.ExtensionSampleRate \in reverseSampleRatesKeys)
                /\ Field(buf, ExtRatePos(buf, 0), 4) \in (0..12) \cup {15}
                /\ RateFieldValue(buf, ExtRatePos(buf, 0))
                      = v.ExtensionSampleRate % Pow2(24)
                /\ SecondTypePos(buf, 0)
                      = 9 + RateLenOf(v.SampleRate) + RateLenOf(v.ExtensionSampleRate)
    /\ (stage = "redecoded" /\ err = Nil) =>
          /\ Is24Bit(v.SampleRate) => rec.SampleRate = v.SampleRate
          /\ (HasExtension(v) /\ Is24Bit(v.ExtensionSampleRate)) =>
                rec.ExtensionSampleRate = v.ExtensionSampleRate
    /\ (stage = "decoded" /\ RateReached(buf, pos0)) =>
          /\ Field(buf, pos0 + 5, 4) \in {13, 14} =>
                /\ err = ErrInvalidSampleRateIndex
                /\ rec.SampleRate = before.SampleRate
          /\ RateFieldOk(buf, pos0 + 5) =>
                /\ rec.SampleRate = RateFieldValue(buf, pos0 + 5)
                /\ err # ErrInvalidSampleRateIndex
          /\ (Field(buf, pos0 + 5, 4) = 15 /\ ~HasBits(buf, pos0 + 9, 24)) =>
                /\ err = ErrNotEnoughBits
                /\ rec.SampleRate = before.SampleRate
    /\ (stage = "decoded" /\ ExtRateReached(buf, pos0)) =>
          /\ Field(buf, ExtRatePos(buf, pos0), 4) \in {13, 14} =>
                /\ err = ErrInvalidExtSampleRateIndex
                /\ rec.ExtensionSampleRate = before.ExtensionSampleRate
          /\ RateFieldOk(buf, ExtRatePos(buf, pos0)) =>
                /\ rec.ExtensionSampleRate = RateFieldValue(buf, ExtRatePos(buf, pos0))
                /\ err # ErrInvalidExtSampleRateIndex

\* a core rate and an extension rate outside the table, written as literals
\* and read back
C4_Witness ==
    /\ stage = "redecoded"
    /\ err = Nil
    /\ v.SampleRate = MaxRate24 /\ v.ExtensionSampleRate = 54321
    /\ v.ExtensionType = ObjectTypePS
    /\ Field(buf, 5, 4) = 15 /\ Field(buf, 37, 4) = 15
    /\ rec.SampleRate = MaxRate24 /\ rec.ExtensionSampleRate = 54321

\* C5: channel mapping.  Unmarshal maps codes 1..6 to counts 1..6 and code 7
\* to count 8, and fails on code 0 and on codes 8..15; Marshal writes code n
\* for counts 1..6 and code 7 for count 8, and for every other count returns
\* the invalid-channel-count error and no buffer, which is its only error.
C5_ChannelMapping ==
    /\ (stage = "decoded" /\ ChannelReached(buf, pos0)) =>
          \E cc \in { Field(buf, ChannelPos(buf, pos0), 4) } :
              /\ cc \in 1..6 => rec.ChannelCount = cc
              /\ cc = 7 => rec.ChannelCount = 8
              /\ cc \in 1..7 => err \notin {ErrNotYetSupported, ErrInvalidChannelConfig}
              /\ cc = 0 => err = ErrNotYetSupported
              /\ cc \in 8..15 => err = ErrInvalidChannelConfig
              /\ cc \notin 1..7 => rec.ChannelCount = before.ChannelCount
    /\ (stage = "decoded" /\ err = Nil) => rec.ChannelCount \in ValidChannelCounts
    /\ Encoded =>
          IF v.ChannelCount \in ValidChannelCounts
          THEN /\ err = Nil /\ ~isNil
               /\ Field(buf, 5 + RateLenOf(v.SampleRate), 4) = ChannelCodeOf(v.ChannelCount)
               /\ Field(buf, 5 + RateLenOf(v.SampleRate), 4) \in 1..7
          ELSE /\ err = ErrInvalidChannelCount
               /\ isNil /\ buf = <<>>

\* a record with seven channels, which has no code, refused
C5_Witness ==
    /\ stage = "encoded"
    /\ v.ChannelCount = 7
    /\ v.Type = ObjectTypeAACLC /\ v.SampleRate = 44100
    /\ isNil
    /\ err = ErrInvalidChannelCount

\* C7: after a successful decode Type is the base profile.  A first type
\* outside {AAC-LC, SBR, PS} fails; an SBR or PS first type is stored in
\* ExtensionType and a second type is read after the extension rate, which
\* must be the base profile; into a fresh record, ExtensionType is SBR or PS
\* exactly when the first type was.
C7_TypeIsBase ==
    /\ (stage \in {"decoded", "redecoded"} /\ err = Nil) =>
          /\ rec.Type = ObjectTypeAACLC
          /\ Field(buf, pos0, 5) \in RecognizedTypes
          /\ Field(buf, pos0, 5) \in ExtensionTypes =>
                /\ rec.ExtensionType = Field(buf, pos0, 5)
                /\ SecondTypeReached(buf, pos0)
                /\ Field(buf, SecondTypePos(buf, pos0), 5) = ObjectTypeAACLC
          /\ Field(buf, pos0, 5) = ObjectTypeAACLC =>
                rec.ExtensionType = before.ExtensionType
          /\ before = ZeroConfig =>
                (HasExtension(rec) <=> Field(buf, pos0, 5) \in ExtensionTypes)
    /\ (stage = "decoded" /\ HasBits(buf, pos0, 5)
           /\ Field(buf, pos0, 5) \notin RecognizedTypes) =>
          /\ err = ErrUnsupportedObjectType
          /\ rec.Type = Field(buf, pos0, 5)
    /\ (stage = "decoded" /\ SecondTypeReached(buf, pos0)
           /\ Field(buf, SecondTypePos(buf, pos0), 5) # ObjectTypeAACLC) =>
          /\ err = ErrUnsupportedObjectType
          /\ rec.Type = Field(buf, SecondTypePos(buf, pos0), 5)
          /\ rec.ExtensionType = Field(buf, pos0, 5)

\* a PS buffer decoded into a fresh record
C7_Witness ==
    /\ stage = "decoded"
    /\ err = Nil
    /\ before = ZeroConfig
    /\ Field(buf, 0, 5) = ObjectTypePS
    /\ rec.ExtensionType = ObjectTypePS
    /\ rec.Type = ObjectTypeAACLC
    /\ rec.ExtensionSampleRate = 48000

\* the buffer with enough zero bytes after it for any decode to run to its end
Padded(x) == x \o [i \in 1..MaxLayoutBytes |-> 0]

\* C6 as stated: Unmarshal of a buffer of 0 or 1 bytes, shorter than the
\* 12-bit header, fails with the bit reader's error, whatever it holds.
C6_ShortBufferTruncation ==
    (stage = "decoded" /\ pos0 = 0 /\ Len(buf) <= 1) => err = ErrNotEnoughBits

\* C6, amended: a decode never moves the cursor past the end of the buffer;
\* it fails with the bit reader's error exactly when a field does not fit in
\* what is left and no field before it was refused, and otherwise ends as
\* the decode of the same bytes followed by zeros does; so a buffer of fewer
\* than 12 bits always fails: with the bit reader's error when it has fewer
\* than 5 bits or its type is AAC-LC, SBR or PS, and with the
\* unsupported-object-type error otherwise.
C6_Truncation ==
    /\ stage \in {"decoded", "redecoded"} =>
          /\ pos <= 8 * Len(buf) \/ (pos = pos0 /\ err = ErrNotEnoughBits)
          /\ \E r \in { UnmarshalFromPos(before, Padded(buf), pos0) } :
                IF r.pos > 8 * Len(buf)
                THEN err = ErrNotEnoughBits
                ELSE err = r.err /\ rec = r.c /\ pos = r.pos
                     /\ err # ErrNotEnoughBits
    /\ (stage = "decoded" /\ 8 * Len(buf) - pos0 < 12) =>
          err = IF HasBits(buf, pos0, 5) /\ Field(buf, pos0, 5) \notin RecognizedTypes
                THEN ErrUnsupportedObjectType
                ELSE ErrNotEnoughBits

\* one byte that holds the type AAC-LC and three bits of the rate index
C6_Witness ==
    /\ stage = "decoded"
    /\ buf = <<23>>
    /\ pos0 = 0
    /\ pos = 5
    /\ err = ErrNotEnoughBits

\* the fields of c that are not those of d
Changed(c, d) == { f \in DOMAIN c : c[f] # d[f] }

\* C10 as stated: a failed decode leaves every field of the record as it was.
C10_NoPartialResult ==
    (stage = "decoded" /\ err # Nil) => rec = before

\* C10, amended: a failed decode leaves in the record the fields it read
\* before failing, and only the fields it had not reached are as they were:
\* the record is untouched only when the first read fails; with fewer than 9
\* bits consumed only Type may differ, and with fewer than 13 only Type and
\* SampleRate; ExtensionSampleRate is as it was with fewer than 17 bits
\* consumed and CoreCoderDelay with fewer than 29; a refused rate index
\* leaves all but Type, a refused channel configuration all but Type and
\* SampleRate, a refused extension rate index all but those, ChannelCount
\* and ExtensionType.
C10_PartialResult ==
    (stage = "decoded" /\ err # Nil) =>
        /\ pos - pos0 < 5 => rec = before
        /\ pos - pos0 < 9 => Changed(rec, before) \subseteq {"Type"}
        /\ pos - pos0 < 13 => Changed(rec, before) \subseteq {"Type", "SampleRate"}
        /\ pos - pos0 < 17 => rec.ExtensionSampleRate = before.ExtensionSampleRate
        /\ pos - pos0 < 29 => rec.CoreCoderDelay = before.CoreCoderDelay
        /\ err = ErrInvalidSampleRateIndex => Changed(rec, before) \subseteq {"Type"}
        /\ err \in {ErrNotYetSupported, ErrInvalidChannelConfig} =>
              Changed(rec, before) \subseteq {"Type", "SampleRate"}
        /\ err = ErrInvalidExtSampleRateIndex =>
              Changed(rec, before)
                 \subseteq {"Type", "SampleRate", "ChannelCount", "ExtensionType"}
        /\ pos - pos0 >= 5 => rec.Type = Field(buf, pos0, 5)
                              \/ (SecondTypeReached(buf, pos0)
                                  /\ rec.Type = Field(buf, SecondTypePos(buf, pos0), 5))

\* a decode that failed on the channel configuration after it had stored the
\* type and the sample rate
C10_Witness ==
    /\ stage = "decoded"
    /\ err = ErrInvalidChannelConfig
    /\ before = DirtyConfig
    /\ Changed(rec, before) = {"Type", "SampleRate"}
    /\ rec.SampleRate = 12345

=============================================================================
